---- MODULE Spec2Model ----
(***************************************************************************)
(* Model of camera_ortho_scale.py: the modal operator                      *)
(* CAMERA_OT_ortho_scale (poll / invoke / modal / restore / finish) and    *)
(* the function set_ortho_scale.                                           *)
(*                                                                         *)
(* Numbers.  Python floats are modelled as exact rationals <<n, d>> kept   *)
(* in lowest terms with d > 0, so the arithmetic of the handler is the     *)
(* real-number arithmetic its expressions denote (no float rounding).      *)
(* A 4x4 object matrix is the record [lin, loc]: its upper-left 3x3 block  *)
(* (rows of rationals) and its translation column; the bottom row of an    *)
(* object matrix is always (0, 0, 0, 1).                                   *)
(***************************************************************************)
EXTENDS Integers, Sequences, FiniteSets, TLC

VARIABLES
    ctx,            \* context.object / context.space_data as poll reads them
    cam,            \* the camera object: [ortho_scale, matrix_world]
    cursor_mat,     \* context.scene.cursor.matrix
    self,           \* the operator's fields: last_mouse_x, init_scale, init_matrix
    status_text,    \* workspace status-bar text
    header_text,    \* area header text
    cursor_modal,   \* window modal cursor ("NONE" when restored)
    handler,        \* TRUE while the operator is in the window manager's modal handlers
    ret,            \* set returned by the last invoke/modal call ("NONE" before any)
    event,          \* the event passed to the last invoke/modal call
    frame,          \* locals of the last MOUSEMOVE branch of modal
    start_cam       \* history: the camera as it was when invoke was called

vars == <<ctx, cam, cursor_mat, self, status_text, header_text, cursor_modal,
          handler, ret, event, frame, start_cam>>

-----------------------------------------------------------------------------
(* Rational arithmetic *)

Abs(n) == IF n < 0 THEN -n ELSE n

RECURSIVE GCD(_, _)
GCD(a, b) == IF b = 0 THEN a ELSE GCD(b, a % b)

\* the rational n/d (d # 0) in lowest terms with a positive denominator
Rat(n, d) ==
    LET g == GCD(Abs(n), Abs(d))
        s == IF d < 0 THEN -1 ELSE 1
    IN  <<(s * n) \div g, (s * d) \div g>>

RatInt(n) == <<n, 1>>

RatAdd(p, q) == Rat(p[1] * q[2] + q[1] * p[2], p[2] * q[2])

RatSub(p, q) == Rat(p[1] * q[2] - q[1] * p[2], p[2] * q[2])

RatNeg(p) == <<-p[1], p[2]>>

RatMul(p, q) == Rat(p[1] * q[1], p[2] * q[2])

\* p / q, q # 0
RatDiv(p, q) == Rat(p[1] * q[2], p[2] * q[1])

RatLess(p, q) == p[1] * q[2] < q[1] * p[2]

RatLeq(p, q) == p[1] * q[2] <= q[1] * p[2]

\* Python's max(p, q): the first argument unless the second is greater
RatMax(p, q) == IF RatLess(p, q) THEN q ELSE p

\* Python's round(x, 3): the nearest multiple of 1/1000, ties to the even one.
\* The result is the integer number of thousandths.
Round3(q) ==
    LET num == 2000 * q[1] + q[2]
        den == 2 * q[2]
        k   == num \div den
    IN  IF num % den = 0 /\ k % 2 # 0 THEN k - 1 ELSE k

-----------------------------------------------------------------------------
(* mathutils.Matrix *)

Zero == RatInt(0)
One  == RatInt(1)

Dot3(u, v) == RatAdd(RatAdd(RatMul(u[1], v[1]), RatMul(u[2], v[2])), RatMul(u[3], v[3]))

Col(L, j) == <<L[1][j], L[2][j], L[3][j]>>

\* 3x3 block times a vector
LinVec(L, v) == <<Dot3(L[1], v), Dot3(L[2], v), Dot3(L[3], v)>>

\* 3x3 block times 3x3 block
LinMul(L, K) == [i \in 1..3 |-> [j \in 1..3 |-> Dot3(L[i], Col(K, j))]]

VecAdd(u, v) == <<RatAdd(u[1], v[1]), RatAdd(u[2], v[2]), RatAdd(u[3], v[3])>>

IdentityLin == <<<<One, Zero, Zero>>, <<Zero, One, Zero>>, <<Zero, Zero, One>>>>

\* Matrix.Translation((x, y, z))
Translation(v) == [lin |-> IdentityLin, loc |-> v]

\* the operator @ on two object matrices
MatMul(M, N) == [lin |-> LinMul(M.lin, N.lin), loc |-> VecAdd(LinVec(M.lin, N.loc), M.loc)]

Det2(a, b, c, d) == RatSub(RatMul(a, d), RatMul(b, c))

Det3(L) ==
    RatAdd(RatSub(RatMul(L[1][1], Det2(L[2][2], L[2][3], L[3][2], L[3][3])),
                  RatMul(L[1][2], Det2(L[2][1], L[2][3], L[3][1], L[3][3]))),
           RatMul(L[1][3], Det2(L[2][1], L[2][2], L[3][1], L[3][2])))

\* index of the two rows/columns left when i is struck out
Others(i) == IF i = 1 THEN <<2, 3>> ELSE IF i = 2 THEN <<1, 3>> ELSE <<1, 2>>

Cofactor(L, i, j) ==
    LET r == Others(i)
        c == Others(j)
        m == Det2(L[r[1]][c[1]], L[r[1]][c[2]], L[r[2]][c[1]], L[r[2]][c[2]])
    IN  IF (i + j) % 2 = 0 THEN m ELSE RatNeg(m)

\* inverse of the 3x3 block: transposed cofactors over the determinant
LinInverse(L) ==
    LET det == Det3(L)
    IN  [i \in 1..3 |-> [j \in 1..3 |-> RatDiv(Cofactor(L, j, i), det)]]

\* Matrix.inverted() of an invertible object matrix
Inverted(M) ==
    LET inv == LinInverse(M.lin)
        t   == LinVec(inv, M.loc)
    IN  [lin |-> inv, loc |-> <<RatNeg(t[1]), RatNeg(t[2]), RatNeg(t[3])>>]

\* Matrix.decompose()[0]: the translation part
DecomposeLoc(M) == M.loc

-----------------------------------------------------------------------------
(* Bounds of the model and the scenes it starts from *)

\* pointer X coordinates (event.mouse_region_x) range over 0..MaxMouseX
MaxMouseX == 2

\* pointer moves are explored while the computed scale is at most
\* MaxScaleMilli thousandths
MaxScaleMilli == 14

\* one far pointer position, so that offsets of about 300 pixels occur
FarMouseX == 300

MouseXs == (0..MaxMouseX) \cup {FarMouseX}

\* starting values of cam.data.ortho_scale (any positive float): below the
\* 0.01 floor, just below it (rounds to 0.010), and above it on a 3-decimal
\* tie
InitScales == {Rat(1, 200), Rat(29, 3000), Rat(1, 80)}

IntVec(x, y, z) == <<RatInt(x), RatInt(y), RatInt(z)>>

IntLin(r1, r2, r3) ==
    <<IntVec(r1[1], r1[2], r1[3]), IntVec(r2[1], r2[2], r2[3]), IntVec(r3[1], r3[2], r3[3])>>

\* starting (cam.matrix_world, scene.cursor.matrix) pairs: a camera turned a
\* quarter about Z and moved, and a camera turned about X with object scale 2
Scenes ==
    { [cam_mat    |-> [lin |-> IntLin(<<0, -1, 0>>, <<1, 0, 0>>, <<0, 0, 1>>),
                       loc |-> IntVec(1, 2, 3)],
       cursor_mat |-> Translation(IntVec(-1, 4, 0))],
      [cam_mat    |-> [lin |-> IntLin(<<2, 0, 0>>, <<0, 0, -2>>, <<0, 2, 0>>),
                       loc |-> IntVec(0, -6, 1)],
       cursor_mat |-> Translation(IntVec(2, 1, 3))] }

\* what poll reads: the active object's type ("NONE": no active object), the
\* camera data's type, and the 3D view's view_perspective
Contexts ==
    [ob : {"CAMERA"}, data_type : {"ORTHO", "PERSP"}, view_perspective : {"CAMERA", "PERSP"}]
    \cup [ob : {"NONE", "MESH"}, data_type : {"NA"}, view_perspective : {"CAMERA", "PERSP"}]

KeyTypes == {"ESC", "RIGHTMOUSE", "SPACE", "LEFTMOUSE", "RET", "A"}

\* the events the window manager hands to modal: pointer moves, and presses
\* and releases of keys and buttons at pointer position x (releases of one
\* confirm and one cancel input stand for all releases)
MouseMoveEvents ==
    [type : {"MOUSEMOVE"}, value : {"NOTHING"}, mouse_region_x : MouseXs, shift : BOOLEAN]

KeyEvents(x) ==
    [type : KeyTypes, value : {"PRESS"}, mouse_region_x : {x}, shift : {FALSE}]
    \cup [type : {"LEFTMOUSE", "ESC"}, value : {"RELEASE"}, mouse_region_x : {x},
          shift : {FALSE}]

\* the keymap item that starts the operator: Alt+S pressed
InvokeEvents ==
    [type : {"S"}, value : {"PRESS"}, mouse_region_x : MouseXs, shift : {FALSE}]

NoEvent == [type |-> "NONE", value |-> "NOTHING", mouse_region_x |-> 0, shift |-> FALSE]

-----------------------------------------------------------------------------
(* The operator *)

MinOrthoScale == Rat(1, 100)

StatusHint == "LMB, ENTER: Confirm | RMB, ESC: Cancel"

NoMatrix == [lin |-> <<>>, loc |-> <<>>]

NoHeader == [text |-> "None", value |-> 0]

\* mutant of HeaderText: the value is cut to 3 decimals, not rounded
HeaderTextTruncated(x) ==
    [text |-> "Orthographic Scale: {:.3f}", value |-> (1000 * x[1]) \div x[2]]

\* "Orthographic Scale: {:.3f}".format(x): x shown as a count of thousandths,
\* rounded to nearest, ties to even
HeaderText(x) == [text |-> "Orthographic Scale: {:.3f}", value |-> Round3(x)]

\* mutant of Poll: the view_perspective test is left out
PollAnyView(c) ==
    /\ c.ob = "CAMERA"
    /\ c.data_type = "ORTHO"

Poll(c) ==
    /\ c.ob # "NONE"
    /\ c.ob = "CAMERA"
    /\ c.data_type = "ORTHO"
    /\ c.view_perspective = "CAMERA"

\* mutant of Divisor: the precision divisor is 1000
DivisorCoarse(shift) == IF shift THEN 1000 ELSE 300

Divisor(shift) == IF shift THEN 3000 ELSE 300

OrthoScaleOffset(offset_x, shift) == Rat(offset_x, Divisor(shift))

\* mutant of TargetScale: the floor is 0
TargetScaleFloorZero(cam_ortho_scale, offset_x, shift) ==
    RatMax(RatSub(cam_ortho_scale, OrthoScaleOffset(offset_x, shift)), Zero)

\* mutant of TargetScale: the max with 0.01 is left out
TargetScaleNoFloor(cam_ortho_scale, offset_x, shift) ==
    RatSub(cam_ortho_scale, OrthoScaleOffset(offset_x, shift))

\* mutant of TargetScale: the offset is added
TargetScalePlus(cam_ortho_scale, offset_x, shift) ==
    RatMax(RatAdd(cam_ortho_scale, OrthoScaleOffset(offset_x, shift)), MinOrthoScale)

\* the scale modal asks for: lines 64-66
TargetScale(cam_ortho_scale, offset_x, shift) ==
    RatMax(RatSub(cam_ortho_scale, OrthoScaleOffset(offset_x, shift)), MinOrthoScale)

Half(x) == RatDiv(x, RatInt(2))

\* mutant of CamTransform: the current scale is not halved
CamTransformFullWidth(cursor_offset, cam_ortho_scale, new_ortho_scale) ==
    LET cursor_perc       == RatDiv(cursor_offset, cam_ortho_scale)
        new_cursor_offset == RatMul(cursor_perc, Half(new_ortho_scale))
    IN  RatSub(new_cursor_offset, cursor_offset)

\* the camera translation along one local axis: lines 112-116 and 119-123
CamTransform(cursor_offset, cam_ortho_scale, new_ortho_scale) ==
    LET cursor_perc       == RatDiv(cursor_offset, Half(cam_ortho_scale))
        new_cursor_offset == RatMul(cursor_perc, Half(new_ortho_scale))
    IN  RatSub(new_cursor_offset, cursor_offset)

\* the cursor's location in camera space: lines 105-106
CursorLoc(cam_mat, cursor) == DecomposeLoc(MatMul(Inverted(cam_mat), cursor))

\* mutant of SetOrthoScale: the translation is composed on the left, in world
\* axes
SetOrthoScaleWorldOrder(c, cursor, ortho_scale) ==
    IF Round3(c.ortho_scale) # Round3(ortho_scale)
    THEN LET loc == CursorLoc(c.matrix_world, cursor)
             cam_transform_x == CamTransform(loc[1], c.ortho_scale, ortho_scale)
             cam_transform_y == CamTransform(loc[2], c.ortho_scale, ortho_scale)
         IN  [ortho_scale  |-> ortho_scale,
              matrix_world |->
                  MatMul(Translation(<<RatNeg(cam_transform_x), RatNeg(cam_transform_y),
                                       Zero>>),
                         c.matrix_world)]
    ELSE c

\* mutant of SetOrthoScale: the comparison of the rounded scales is left out
SetOrthoScaleUnguarded(c, cursor, ortho_scale) ==
    LET loc == CursorLoc(c.matrix_world, cursor)
        cam_transform_x == CamTransform(loc[1], c.ortho_scale, ortho_scale)
        cam_transform_y == CamTransform(loc[2], c.ortho_scale, ortho_scale)
    IN  [ortho_scale  |-> ortho_scale,
         matrix_world |->
             MatMul(c.matrix_world,
                    Translation(<<RatNeg(cam_transform_x), RatNeg(cam_transform_y), Zero>>))]

\* set_ortho_scale(context, cam, ortho_scale): the camera it leaves
SetOrthoScale(c, cursor, ortho_scale) ==
    LET cam_ortho_scale == c.ortho_scale
        new_ortho_scale == ortho_scale
    IN  IF Round3(cam_ortho_scale) # Round3(new_ortho_scale)
        THEN LET loc == CursorLoc(c.matrix_world, cursor)
                 cam_transform_x == CamTransform(loc[1], cam_ortho_scale, new_ortho_scale)
                 cam_transform_y == CamTransform(loc[2], cam_ortho_scale, new_ortho_scale)
                 transform_matrix ==
                     Translation(<<RatNeg(cam_transform_x), RatNeg(cam_transform_y), Zero>>)
             IN  [ortho_scale  |-> new_ortho_scale,
                  matrix_world |-> MatMul(c.matrix_world, transform_matrix)]
        ELSE c

\* mutant of Restore: matrix_world is not put back
RestoreScaleOnly(c, s) == [ortho_scale |-> s.init_scale, matrix_world |-> c.matrix_world]

\* restore(): the camera it leaves
Restore(c, s) == [ortho_scale |-> s.init_scale, matrix_world |-> s.init_matrix]

CancelTypes == {"ESC", "RIGHTMOUSE"}

ConfirmTypes == {"SPACE", "LEFTMOUSE"}

\* mutant of InvokeReturn: invoke returns FINISHED
InvokeReturnFinished == "FINISHED"

InvokeReturn == "RUNNING_MODAL"

\* what modal returns for an event
ModalReturn(e) ==
    IF e.type = "MOUSEMOVE" THEN "RUNNING_MODAL"
    ELSE IF e.value = "PRESS" /\ e.type \in CancelTypes THEN "CANCELLED"
    ELSE IF e.value = "PRESS" /\ e.type \in ConfirmTypes THEN "FINISHED"
    ELSE "RUNNING_MODAL"

NoFrame ==
    [live |-> FALSE, mouse_x |-> 0, shift |-> FALSE, offset_x |-> 0,
     ortho_scale_offset |-> Zero, ortho_scale |-> Zero, cam_ortho_scale |-> Zero]

Init ==
    /\ ctx \in Contexts
    /\ \E sc \in Scenes, s0 \in InitScales :
          /\ cam = [ortho_scale |-> s0, matrix_world |-> sc.cam_mat]
          /\ cursor_mat = sc.cursor_mat
    /\ self = [cam |-> "None", last_mouse_x |-> 0, init_scale |-> Zero, init_matrix |-> NoMatrix]
    /\ status_text = "None"
    /\ header_text = NoHeader
    /\ cursor_modal = "NONE"
    /\ handler = FALSE
    /\ ret = "NONE"
    /\ event = NoEvent
    /\ frame = NoFrame
    /\ start_cam = cam

\* mutant of invoke: last_mouse_x is not taken from the event
invokeNoPointer(e) ==
    /\ self' = [cam          |-> "context.object",
                last_mouse_x |-> self.last_mouse_x,
                init_scale   |-> cam.ortho_scale,
                init_matrix  |-> cam.matrix_world]
    /\ status_text' = StatusHint
    /\ cursor_modal' = "MOVE_X"
    /\ handler' = TRUE
    /\ ret' = InvokeReturn
    /\ event' = e
    /\ start_cam' = cam
    /\ UNCHANGED <<ctx, cam, cursor_mat, header_text, frame>>

\* invoke(context, event), called once the keymap item fires and poll passed
invoke(e) ==
    /\ self' = [cam          |-> "context.object",
                last_mouse_x |-> e.mouse_region_x,
                init_scale   |-> cam.ortho_scale,
                init_matrix  |-> cam.matrix_world]
    /\ status_text' = StatusHint
    /\ cursor_modal' = "MOVE_X"
    /\ handler' = TRUE
    /\ ret' = InvokeReturn
    /\ event' = e
    /\ start_cam' = cam
    /\ UNCHANGED <<ctx, cam, cursor_mat, header_text, frame>>

\* the keymap item fires while no session has run: the window manager calls
\* poll and, when it passes, invoke; otherwise the event passes through
Activate ==
    /\ ret \in {"NONE", "PASS_THROUGH"}
    /\ \E e \in InvokeEvents :
          IF Poll(ctx)
          THEN invoke(e)
          ELSE /\ ret' = "PASS_THROUGH"
               /\ UNCHANGED <<ctx, cam, cursor_mat, self, status_text, header_text,
                              cursor_modal, handler, event, frame, start_cam>>

\* mutant of finish: the header text is not cleared
finishKeepsHeader ==
    /\ status_text' = "None"
    /\ cursor_modal' = "NONE"
    /\ UNCHANGED header_text

\* finish(context)
finish ==
    /\ header_text' = NoHeader
    /\ status_text' = "None"
    /\ cursor_modal' = "NONE"

\* mutant of modalMouseMove: last_mouse_x is not updated
modalMouseMoveNoTrack(e) ==
    LET offset_x    == e.mouse_region_x - self.last_mouse_x
        ortho_scale == TargetScale(cam.ortho_scale, offset_x, e.shift)
    IN  /\ RatLeq(ortho_scale, Rat(MaxScaleMilli, 1000))
        /\ cam' = SetOrthoScale(cam, cursor_mat, ortho_scale)
        /\ header_text' = HeaderText(ortho_scale)
        /\ frame' = [live |-> TRUE, mouse_x |-> e.mouse_region_x, shift |-> e.shift,
                     offset_x |-> offset_x,
                     ortho_scale_offset |-> OrthoScaleOffset(offset_x, e.shift),
                     ortho_scale |-> ortho_scale, cam_ortho_scale |-> cam.ortho_scale]
        /\ UNCHANGED <<self, status_text, cursor_modal>>

\* mutant of modalMouseMove: init_matrix is the camera's matrix itself (no
\* copy), so it follows every write to matrix_world
modalMouseMoveAliasedSnapshot(e) ==
    LET offset_x    == e.mouse_region_x - self.last_mouse_x
        ortho_scale == TargetScale(cam.ortho_scale, offset_x, e.shift)
    IN  /\ RatLeq(ortho_scale, Rat(MaxScaleMilli, 1000))
        /\ cam' = SetOrthoScale(cam, cursor_mat, ortho_scale)
        /\ header_text' = HeaderText(ortho_scale)
        /\ self' = [self EXCEPT !.last_mouse_x = e.mouse_region_x,
                                !.init_matrix = cam'.matrix_world]
        /\ frame' = [live |-> TRUE, mouse_x |-> e.mouse_region_x, shift |-> e.shift,
                     offset_x |-> offset_x,
                     ortho_scale_offset |-> OrthoScaleOffset(offset_x, e.shift),
                     ortho_scale |-> ortho_scale, cam_ortho_scale |-> cam.ortho_scale]
        /\ UNCHANGED <<status_text, cursor_modal>>

\* modal(context, event) on a pointer move: lines 59-71
modalMouseMove(e) ==
    LET mouse_x            == e.mouse_region_x
        offset_x           == mouse_x - self.last_mouse_x
        ortho_scale_offset == OrthoScaleOffset(offset_x, e.shift)
        ortho_scale        == TargetScale(cam.ortho_scale, offset_x, e.shift)
    IN  /\ RatLeq(ortho_scale, Rat(MaxScaleMilli, 1000))
        /\ cam' = SetOrthoScale(cam, cursor_mat, ortho_scale)
        /\ header_text' = HeaderText(ortho_scale)
        /\ self' = [self EXCEPT !.last_mouse_x = e.mouse_region_x]
        /\ frame' = [live |-> TRUE, mouse_x |-> mouse_x, shift |-> e.shift,
                     offset_x |-> offset_x, ortho_scale_offset |-> ortho_scale_offset,
                     ortho_scale |-> ortho_scale, cam_ortho_scale |-> cam.ortho_scale]
        /\ UNCHANGED <<status_text, cursor_modal>>

\* mutant of modalKey: the confirm branch restores the camera too
modalKeyConfirmRestores(e) ==
    /\ IF e.value = "PRESS" /\ e.type \in CancelTypes \cup ConfirmTypes
       THEN /\ cam' = Restore(cam, self)
            /\ finish
       ELSE UNCHANGED <<cam, status_text, header_text, cursor_modal>>
    /\ UNCHANGED <<self, frame>>

\* mutant of modalKey: event.value is not tested
modalKeyIgnoresValue(e) ==
    /\ IF e.type \in CancelTypes
       THEN /\ cam' = Restore(cam, self)
            /\ finish
       ELSE IF e.type \in ConfirmTypes
       THEN /\ finish
            /\ UNCHANGED cam
       ELSE UNCHANGED <<cam, status_text, header_text, cursor_modal>>
    /\ UNCHANGED <<self, frame>>

\* modal(context, event) on any other event: lines 73-84
modalKey(e) ==
    /\ IF e.value = "PRESS" /\ e.type \in CancelTypes
       THEN /\ cam' = Restore(cam, self)
            /\ finish
       ELSE IF e.value = "PRESS" /\ e.type \in ConfirmTypes
       THEN /\ finish
            /\ UNCHANGED cam
       ELSE UNCHANGED <<cam, status_text, header_text, cursor_modal>>
    /\ UNCHANGED <<self, frame>>

\* the window manager hands an event to the running modal handler and drops
\* the handler unless modal returns RUNNING_MODAL
modal ==
    /\ handler
    /\ \E e \in MouseMoveEvents \cup KeyEvents(self.last_mouse_x) :
          /\ IF e.type = "MOUSEMOVE" THEN modalMouseMove(e) ELSE modalKey(e)
          /\ ret' = ModalReturn(e)
          /\ handler' = (ModalReturn(e) = "RUNNING_MODAL")
          /\ event' = e
    /\ UNCHANGED <<ctx, cursor_mat, start_cam>>

Next == Activate \/ modal

Spec == Init /\ [][Next]_vars

-----------------------------------------------------------------------------
(* The session of spec 4.2, read off the operator's return values *)

SessionState ==
    CASE ret \in {"NONE", "PASS_THROUGH"} -> "IDLE"
      [] ret = "RUNNING_MODAL"            -> "ACTIVE"
      [] ret = "FINISHED"                 -> "CONFIRMED"
      [] ret = "CANCELLED"                -> "CANCELLED"

\* the last pointer move wrote the camera (set_ortho_scale took its branch)
LastMoveWrote == frame.live /\ Round3(frame.cam_ortho_scale) # Round3(frame.ortho_scale)

-----------------------------------------------------------------------------
(* Claims *)

\* C1 (cancel restores exactly): once the session is CANCELLED, after any
\* pointer moves, the camera's ortho_scale and matrix_world are those it had
\* when the session started.
CancelRestoresExactly == ret = "CANCELLED" => cam = start_cam

\* C1 witness: a cancelled session whose last pointer move had changed the
\* camera.
CancelAfterChange ==
    /\ ret = "CANCELLED"
    /\ LastMoveWrote
    /\ frame.ortho_scale # start_cam.ortho_scale

\* C2 as stated (scale floor in every state after pointer moves): while the
\* session is ACTIVE and a pointer move has been handled, ortho_scale >= 0.01.
ScaleNeverBelowFloor ==
    (ret = "RUNNING_MODAL" /\ frame.live) => RatLeq(Rat(1, 100), cam.ortho_scale)

\* C2 amended: ortho_scale is at least 0.01 in every state of a session
\* unless it is still (or is again, after cancel) the scale the session
\* started with; in particular it never falls below min(S0, 0.01).
ScaleFloorOrStart ==
    SessionState # "IDLE" =>
        \/ RatLeq(Rat(1, 100), cam.ortho_scale)
        \/ cam.ortho_scale = start_cam.ortho_scale

\* C2 witness: a pointer move asked for less than 0.01 and the camera sits on
\* the floor.
ClampedToFloor ==
    /\ ret = "RUNNING_MODAL"
    /\ frame.live
    /\ RatLess(RatSub(frame.cam_ortho_scale, frame.ortho_scale_offset), Rat(1, 100))
    /\ cam.ortho_scale = Rat(1, 100)
    /\ cam.ortho_scale # start_cam.ortho_scale

\* C3 as stated (confirm keeps the last computed target): once CONFIRMED
\* after a pointer move, ortho_scale equals the target that move computed.
ConfirmKeepsTarget ==
    (ret = "FINISHED" /\ frame.live) => cam.ortho_scale = frame.ortho_scale

\* C3 amended: once CONFIRMED after a pointer move, ortho_scale is the scale
\* last applied: the last move's target when its 3-decimal rounding differed
\* from that of the scale it found, otherwise the scale that move found; in
\* both cases it equals the target to 3 decimals.
ConfirmKeepsApplied ==
    (ret = "FINISHED" /\ frame.live) =>
        /\ cam.ortho_scale =
               IF LastMoveWrote THEN frame.ortho_scale ELSE frame.cam_ortho_scale
        /\ Round3(cam.ortho_scale) = Round3(frame.ortho_scale)

\* C3 witness: a confirmed session whose camera scale is a target that
\* differs from the starting scale.
ConfirmAfterChange ==
    /\ ret = "FINISHED"
    /\ LastMoveWrote
    /\ cam.ortho_scale # start_cam.ortho_scale

\* the cursor's camera-local X and Y offsets over the view extent
\* ortho_scale / 2, for camera c
ScreenCoord(c) ==
    LET loc    == CursorLoc(c.matrix_world, cursor_mat)
        extent == RatDiv(c.ortho_scale, RatInt(2))
    IN  <<RatDiv(loc[1], extent), RatDiv(loc[2], extent)>>

\* C4 (anchor invariance): in every state the cursor's normalized screen
\* coordinate (camera-local X and Y over the view extent) is the one it had
\* at session start, so no scale-change step moves it.
AnchorInvariance == ScreenCoord(cam) = ScreenCoord(start_cam)

\* C4 witness: pointer moves have changed the scale and translated the
\* camera while the session is ACTIVE.
AnchorHeldAfterRescale ==
    /\ ret = "RUNNING_MODAL"
    /\ cam.ortho_scale # start_cam.ortho_scale
    /\ cam.matrix_world.loc # start_cam.matrix_world.loc

\* C5 (no-op stability): every pointer move whose target rounds to the same
\* 3 decimals as the camera's scale leaves the camera's matrix_world (and
\* scale) as it was, however often it is repeated.
NoOpStability ==
    [][(/\ handler
        /\ event'.type = "MOUSEMOVE"
        /\ Round3(frame'.ortho_scale) = Round3(cam.ortho_scale))
       => cam' = cam]_vars

\* C5 witness: a pointer move asked for a scale other than the camera's that
\* rounds to the same 3 decimals, and the camera kept its scale.
NoOpMoveHandled ==
    /\ event.type = "MOUSEMOVE"
    /\ frame.ortho_scale # frame.cam_ortho_scale
    /\ Round3(frame.ortho_scale) = Round3(frame.cam_ortho_scale)
    /\ cam.ortho_scale = frame.cam_ortho_scale

\* the precondition of spec 4.2 Entry: the active object is an orthographic
\* camera and the viewport is in camera view
EntryPrecondition ==
    /\ ctx.ob = "CAMERA"
    /\ ctx.data_type = "ORTHO"
    /\ ctx.view_perspective = "CAMERA"

\* C6 (activation precondition): the session leaves IDLE only under the
\* entry precondition; when it fails, activation requests leave the session
\* IDLE and the camera, the operator's fields, the status text, the header,
\* the modal cursor and the modal handlers untouched.
ActivationPrecondition ==
    /\ SessionState # "IDLE" => EntryPrecondition
    /\ ~EntryPrecondition =>
          /\ SessionState = "IDLE"
          /\ cam = start_cam
          /\ self.cam = "None"
          /\ status_text = "None"
          /\ header_text = NoHeader
          /\ cursor_modal = "NONE"
          /\ ~handler

\* C6 witness: an activation request was refused.
ActivationRefused == ret = "PASS_THROUGH" /\ ~EntryPrecondition

\* C7 (advertised key bindings): the last event handled was a press of LMB or
\* ENTER only if the session is CONFIRMED, and a press of RMB or ESC only if
\* it is CANCELLED.
AdvertisedKeyBindings ==
    /\ (event.value = "PRESS" /\ event.type \in {"LEFTMOUSE", "RET"}) => ret = "FINISHED"
    /\ (event.value = "PRESS" /\ event.type \in {"RIGHTMOUSE", "ESC"}) => ret = "CANCELLED"

\* C8 (divisor switch): the scale delta a pointer move computes with the
\* precision modifier is one tenth of the delta for the same offset without
\* it, and the other way round.
DivisorSwitch ==
    frame.live =>
        IF frame.shift
        THEN RatMul(RatInt(10), frame.ortho_scale_offset)
                 = OrthoScaleOffset(frame.offset_x, FALSE)
        ELSE frame.ortho_scale_offset
                 = RatMul(RatInt(10), OrthoScaleOffset(frame.offset_x, TRUE))

\* C8 witness: a pointer move with the precision modifier held and an offset
\* of 300 pixels.
PrecisionMoveBy300 ==
    frame.live /\ frame.shift /\ frame.offset_x = 300

\* the target of a pointer move as the claim gives it
ClaimedTarget(prev_scale, offset_x, shift) ==
    RatMax(RatSub(prev_scale, Rat(offset_x, IF shift THEN 3000 ELSE 300)), Rat(1, 100))

\* C9 as stated (pointer move applies the target): after every pointer move
\* ortho_scale equals max(previous ortho_scale - offset / divisor, 0.01).
MoveAppliesTarget ==
    [][(handler /\ event'.type = "MOUSEMOVE") =>
         cam'.ortho_scale =
             ClaimedTarget(cam.ortho_scale,
                           event'.mouse_region_x - self.last_mouse_x, event'.shift)]_vars

\* C9 amended: after every pointer move ortho_scale equals that target when
\* the target's 3-decimal rounding differs from the previous scale's, and is
\* the previous scale otherwise.
MoveAppliesTargetUnlessSameRounding ==
    [][(handler /\ event'.type = "MOUSEMOVE") =>
         LET target == ClaimedTarget(cam.ortho_scale,
                                     event'.mouse_region_x - self.last_mouse_x,
                                     event'.shift)
         IN  cam'.ortho_scale =
                 IF Round3(target) # Round3(cam.ortho_scale) THEN target
                 ELSE cam.ortho_scale]_vars

\* C9 witness: a pointer move, made after an earlier one had changed the
\* scale, wrote a target computed from the camera's scale and not from the
\* snapshot.
MoveFromCurrentScale ==
    /\ event.type = "MOUSEMOVE"
    /\ LastMoveWrote
    /\ cam.ortho_scale = frame.ortho_scale
    /\ frame.cam_ortho_scale # self.init_scale
    /\ frame.offset_x # 0

\* C10 (one-way lifecycle): the session only moves IDLE -> ACTIVE ->
\* CONFIRMED or CANCELLED; from a terminal state nothing changes the state or
\* the camera, and the operator is no longer among the modal handlers.
LifecycleOneWay ==
    [][/\ \/ SessionState' = SessionState
          \/ <<SessionState, SessionState'>> \in
                 {<<"IDLE", "ACTIVE">>, <<"ACTIVE", "CONFIRMED">>, <<"ACTIVE", "CANCELLED">>}
       /\ SessionState \in {"CONFIRMED", "CANCELLED"} =>
              (SessionState' = SessionState /\ cam' = cam)
       /\ SessionState' \in {"CONFIRMED", "CANCELLED"} => ~handler']_vars

\* C10 witness: a session that went through pointer moves has ended and its
\* handler is gone.
SessionEnded ==
    /\ SessionState \in {"CONFIRMED", "CANCELLED"}
    /\ frame.live
    /\ ~handler

\* C11 (capture and status text held exactly while ACTIVE): while ACTIVE the
\* status-bar hint and the modal cursor are set; before activation and once
\* CONFIRMED or CANCELLED the header text and the status-bar hint are cleared
\* and the modal cursor is restored.
CaptureHeldWhileActive ==
    /\ SessionState = "ACTIVE" =>
          /\ status_text = "LMB, ENTER: Confirm | RMB, ESC: Cancel"
          /\ cursor_modal = "MOVE_X"
    /\ SessionState # "ACTIVE" =>
          /\ header_text = [text |-> "None", value |-> 0]
          /\ status_text = "None"
          /\ cursor_modal = "NONE"

\* C11 witness: a session that had shown a scale in the header was cancelled
\* and header, hint and cursor are cleared.
ClearedAfterCancel ==
    /\ ret = "CANCELLED"
    /\ frame.live
    /\ header_text.text = "None"
    /\ status_text = "None"
    /\ cursor_modal = "NONE"

\* C12 (displayed scale matches the camera): while ACTIVE after a pointer
\* move, the header shows the 3-decimal rounding of the ortho_scale stored on
\* the camera, also when the move was clamped or skipped.
DisplayedScaleMatchesCamera ==
    (ret = "RUNNING_MODAL" /\ frame.live) =>
        /\ header_text.text = "Orthographic Scale: {:.3f}"
        /\ header_text.value = Round3(cam.ortho_scale)

\* C12 witness: a pointer move was skipped as a no-op with a target other than
\* the camera's scale, and the header shows the camera's rounded scale.
DisplayedAfterSkippedMove ==
    /\ event.type = "MOUSEMOVE"
    /\ ~LastMoveWrote
    /\ frame.ortho_scale # cam.ortho_scale
    /\ header_text.value = Round3(cam.ortho_scale)

\* C13 (entry snapshot): the step that takes the session from IDLE to ACTIVE
\* records init_scale and init_matrix from the camera and last_mouse_x from
\* the event, and leaves the camera as it was.
EntrySnapshot ==
    [][(SessionState = "IDLE" /\ SessionState' = "ACTIVE") =>
          /\ self'.init_scale = cam.ortho_scale
          /\ self'.init_matrix = cam.matrix_world
          /\ self'.last_mouse_x = event'.mouse_region_x
          /\ cam' = cam]_vars

\* C13 witness: a session was just activated with the pointer away from 0.
ActivatedAwayFromZero ==
    /\ ret = "RUNNING_MODAL"
    /\ event.type = "S"
    /\ event.mouse_region_x # 0
    /\ self.last_mouse_x = event.mouse_region_x
    /\ self.init_scale = cam.ortho_scale

\* C14 (pointer tracking): every pointer move sets last_mouse_x to the event's
\* X, clamped or skipped or not, and the offset it uses is measured from the
\* preceding pointer move's X when there was one.
PointerTracking ==
    [][(handler /\ event'.type = "MOUSEMOVE") =>
          /\ self'.last_mouse_x = event'.mouse_region_x
          /\ frame.live => frame'.offset_x = event'.mouse_region_x - frame.mouse_x]_vars

\* C14 witness: a pointer move with a non-zero offset did not write the
\* camera, and last_mouse_x is its X.
TrackedThroughSkippedMove ==
    /\ event.type = "MOUSEMOVE"
    /\ frame.live
    /\ ~LastMoveWrote
    /\ frame.offset_x # 0
    /\ self.last_mouse_x = event.mouse_region_x

\* C15 (translation confined to the local X/Y plane): every pointer move
\* changes matrix_world only by a translation in camera-local coordinates
\* with no Z part, so the 3x3 block and the cursor's camera-local Z stay as
\* they were.
TranslationInLocalPlane ==
    [][(handler /\ event'.type = "MOUSEMOVE") =>
          LET step == MatMul(Inverted(cam.matrix_world), cam'.matrix_world)
          IN  /\ step.lin = IdentityLin
              /\ step.loc[3] = Zero
              /\ cam'.matrix_world.lin = cam.matrix_world.lin
              /\ CursorLoc(cam'.matrix_world, cursor_mat)[3]
                     = CursorLoc(cam.matrix_world, cursor_mat)[3]]_vars

\* C15 witness: a pointer move has translated the camera and its 3x3 block
\* is the starting one.
TranslatedKeepingOrientation ==
    /\ event.type = "MOUSEMOVE"
    /\ LastMoveWrote
    /\ cam.matrix_world.loc # start_cam.matrix_world.loc
    /\ cam.matrix_world.lin = start_cam.matrix_world.lin

SnapshotImmutable ==
    SessionState # "IDLE" =>
        /\ self.init_scale = start_cam.ortho_scale
        /\ self.init_matrix = start_cam.matrix_world

\* C17 witness: the session is ACTIVE and pointer moves have changed both the
\* camera's scale and its matrix away from the snapshot.
SnapshotDiffersFromCamera ==
    /\ ret = "RUNNING_MODAL"
    /\ frame.live
    /\ cam.ortho_scale # self.init_scale
    /\ cam.matrix_world # self.init_matrix

\* C18 (compensator precondition): the scale set_ortho_scale found at the
\* last pointer move was strictly positive, and so is the camera's scale
\* while the handler runs.
CompensatorScalePositive ==
    /\ frame.live => RatLess(RatInt(0), frame.cam_ortho_scale)
    /\ handler => RatLess(RatInt(0), cam.ortho_scale)

\* C18 witness: set_ortho_scale took its branch dividing by a scale that
\* an earlier move had clamped to the floor.
CompensatorRanFromFloor ==
    /\ ret = "RUNNING_MODAL"
    /\ LastMoveWrote
    /\ frame.cam_ortho_scale = Rat(1, 100)
    /\ frame.cam_ortho_scale # start_cam.ortho_scale

====
